---- MODULE Spec2Model ----
(***************************************************************************)
(* Models of the components of the repository that carry state:            *)
(*  - the ttl_cache decorator of DZIEN_2/advanced_decorators.py: an        *)
(*    OrderedDict from call keys to (insertion time, value), swept of      *)
(*    expired entries at the start of every call and bounded by LRU        *)
(*    eviction (Spec, SpecKeys);                                           *)
(*  - the retry and ensure decorators of the same file (SpecRetry,         *)
(*    SpecEnsure);                                                         *)
(*  - EventEmmiter of DZIEN_4/event_emmiterprojekt/events.py (SpecBus);    *)
(*  - LazyModel and ObservableValue of                                     *)
(*    DZIEN_2/advanced_prop/advanced_properties.py (SpecLazy, SpecObs);    *)
(*  - an object of a HistoryMeta class of DZIEN_4/timetravel.py (SpecHist);*)
(*  - the ttl_cache wrapper called from two threads (SpecThreads) and      *)
(*    around a coroutine function (SpecAsync).                             *)
(* Each specification moves the variables of its component and leaves the  *)
(* other components in their initial state.                                *)
(***************************************************************************)
EXTENDS Integers, Sequences, FiniteSets, TLC

(* ---------------------------- bounds ---------------------------------- *)

\* largest value the injected clock (time_fn) reaches
MaxTime == 3
\* the wrapped function is called with one positional int among 1..NumArgs
NumArgs == 3
\* the wrapped function returns a value among 1..NumResults
NumResults == 2
\* ttl is chosen by the caller of ttl_cache among 0..MaxTtl
MaxTtl == 2
\* maxsize is chosen by the caller of ttl_cache among 0..MaxMaxsize
MaxMaxsize == 2
\* retry: attempts is chosen among 0..MaxAttempts
MaxAttempts == 3
\* retry: delay is chosen among 0..MaxFirstDelay
MaxFirstDelay == 2
\* retry: backoff is chosen among 1..MaxBackoff
MaxBackoff == 2
\* retry: max_delay is None or chosen among 1..MaxCap
MaxCap == 2
\* EventEmmiter: at most MaxOnce calls of once
MaxOnce == 2
\* EventEmmiter: at most MaxEmits calls of emit
MaxEmits == 3
\* EventEmmiter: at most MaxListeners listeners registered for an event
MaxListeners == 2
\* LazyModel: at most MaxReads reads of data between two invalidations
MaxReads == 3
\* ObservableValue: values are among 0..MaxValue
MaxValue == 2
\* ObservableValue: at most MaxObservers calls of subscribe
MaxObservers == 3
\* HistoryMeta: at most MaxHistory attribute assignments are recorded
MaxHistory == 3
\* ttl_cache around a coroutine function: at most MaxCoros misses
MaxCoros == 3
\* two threads: the wrapper is called with an int among 1..MaxThreadArg
MaxThreadArg == 2
\* two threads: each thread makes at most MaxThreadCalls calls
MaxThreadCalls == 2

VARIABLES
    decorated,  \* TRUE once ttl_cache(...)(func) has returned the wrapper
    ttl,        \* parameter ttl of ttl_cache
    maxsize,    \* parameter maxsize of ttl_cache
    typed,      \* parameter typed of ttl_cache
    clock,      \* the value time_fn() returned last
    cache,      \* the OrderedDict, oldest position first: <<[key, t, value]>>
    last,       \* what the last completed operation did and returned
    stored,     \* history: the entry each key got from its last storing miss
                \* and the call that stored it (by), forgotten when the key
                \* is evicted for capacity or cleared
    recency,    \* history: the stored keys by their most recent access
                \* (insertion or hit), least recently accessed first
    rt,         \* retry: the parameters and the call of a retry-wrapped func
    en,         \* ensure: the contracts and the last call of the wrapped func
    bus,        \* EventEmmiter: _listeners and what the operations did
    lm,         \* LazyModel: _data_cache, _loaded_at and the loader's calls
    ov,         \* ObservableValue: _value, _observers and the last assignment
    hm,         \* an object of a HistoryMeta class: __dict__ and _history
    cc,         \* the ttl_cache wrapper called from two threads
    ac          \* the ttl_cache wrapper around a coroutine function

cacheVars == <<decorated, ttl, maxsize, typed, clock, cache, last, stored, recency>>

\* the variables of the components other than ttl_cache
notCache == <<rt, en, bus, lm, ov, hm, cc, ac>>

vars == <<cacheVars, notCache>>

(* ------------------------ Python values ------------------------------- *)

PyInt(n) == [ty |-> "int", n |-> n, s |-> ""]
PyFloat(n) == [ty |-> "float", n |-> n, s |-> ""]
\* a list object: equal to nothing hashable, and not hashable itself
PyList(n) == [ty |-> "list", n |-> n, s |-> ""]
\* the 2-tuple (s, n) of a str and an int
PyTuple(s, n) == [ty |-> "tuple", n |-> n, s |-> s]

\* The order of str used by sorted(): position in this list.
Names == <<"a", "b">>

NameOrd(name) == CHOOSE i \in 1..Len(Names) : Names[i] = name

(* One element of a key tuple, in a form where record equality is Python's  *)
(* ==: 1 == 1.0 (and their hashes agree), a tuple equals a tuple with equal  *)
(* elements, a type equals itself only.                                     *)
ValuePart(v) ==
    IF v.ty \in {"int", "float"}
    THEN [kind |-> "num", n |-> v.n, s |-> "", inner |-> ""]
    ELSE IF v.ty = "tuple"
    THEN [kind |-> "pair", n |-> v.n, s |-> v.s, inner |-> "num"]
    ELSE [kind |-> "list", n |-> v.n, s |-> "", inner |-> ""]

\* the tuple (k, v) that make_key appends for a named argument
PairPart(k, v) ==
    [kind |-> "pair", n |-> v.n, s |-> k,
     inner |-> IF v.ty \in {"int", "float"} THEN "num" ELSE v.ty]

\* a type() that tells no two values apart
TypePart_Same(v) == [kind |-> "type", n |-> 0, s |-> "", inner |-> ""]

\* type(v)
TypePart(v) == [kind |-> "type", n |-> 0, s |-> v.ty, inner |-> ""]

\* hash(part) succeeds
HashablePart(p) == p.kind # "list" /\ (p.kind = "pair" => p.inner = "num")

\* hash(key) succeeds: a tuple hashes its elements
Hashable(key) == \A i \in 1..Len(key) : HashablePart(key[i])

RECURSIVE InsertKw(_, _)
\* insert the item kv into the list s, which is sorted by name
InsertKw(s, kv) ==
    IF s = <<>> THEN <<kv>>
    ELSE IF NameOrd(kv[1]) < NameOrd(Head(s)[1]) THEN <<kv>> \o s
    ELSE <<Head(s)>> \o InsertKw(Tail(s), kv)

\* the items in the order of the call, not sorted
SortedItems_Unsorted(kwargs) == kwargs

RECURSIVE SortedItems(_)
\* sorted(kwargs.items()): names are distinct, so values are never compared
SortedItems(kwargs) ==
    IF kwargs = <<>> THEN <<>>
    ELSE InsertKw(SortedItems(Tail(kwargs)), Head(kwargs))

\* make_key(args, kwargs) under the parameter typed
make_key(args, kwargs, typed_) ==
    LET items == SortedItems(kwargs)
        key_parts == [i \in 1..Len(args) |-> ValuePart(args[i])]
                     \o [i \in 1..Len(items) |-> PairPart(items[i][1], items[i][2])]
    IN  IF typed_
        THEN key_parts \o [i \in 1..Len(args) |-> TypePart(args[i])]
                       \o [i \in 1..Len(items) |-> TypePart(items[i][2])]
        ELSE key_parts

(* -------------------- the OrderedDict operations ---------------------- *)

\* list(cache.keys())
Keys(c) == [i \in 1..Len(c) |-> c[i].key]

\* key in cache
InCache(c, key) == \E i \in 1..Len(c) : c[i].key = key

\* cache[key], for a key in the cache
Entry(c, key) == c[CHOOSE i \in 1..Len(c) : c[i].key = key]

\* the cache without the entry of key: cache.pop(key, None)
Pop(c, key) == SelectSeq(c, LAMBDA e : e.key # key)

\* the comparison of line 343 turned round
Expired_Inverted(e, now, ttl_) == now - e.t < ttl_

\* now - t_inserted > ttl
Expired(e, now, ttl_) == now - e.t > ttl_

\* a sweep that removes nothing
Sweep_None(c, now, ttl_) == c

\* a sweep that removes at most one entry: an if for the loop
Sweep_One(c, now, ttl_) ==
    IF c # <<>> /\ Expired(Head(c), now, ttl_) THEN Tail(c) ELSE c

\* a sweep that scans the whole cache: no break at line 348
Sweep_All(c, now, ttl_) == SelectSeq(c, LAMBDA e : ~Expired(e, now, ttl_))

RECURSIVE Sweep(_, _, _)
(* Lines 341-350: collect the keys of the leading entries that are expired, *)
(* stopping at the first entry that is not, and pop them.                   *)
Sweep(c, now, ttl_) ==
    IF c = <<>> THEN <<>>
    ELSE IF Expired(Head(c), now, ttl_) THEN Sweep(Tail(c), now, ttl_)
    ELSE c

\* a hit that leaves the entry where it is
MoveToEnd_NoMove(c, key) == c

\* Lines 354-355: t_inserted, value = cache.pop(key); cache[key] = (t_inserted, value)
MoveToEnd(c, key) ==
    LET e == Entry(c, key)
    IN  Append(Pop(c, key), [key |-> key, t |-> e.t, value |-> e.value])

\* a store that puts an absent key at the least recently used end
SetItem_Front(c, key, now, result) ==
    IF InCache(c, key)
    THEN [i \in 1..Len(c) |->
            IF c[i].key = key THEN [key |-> key, t |-> now, value |-> result]
            ELSE c[i]]
    ELSE <<[key |-> key, t |-> now, value |-> result]>> \o c

\* Line 360: cache[key] = (now, result); an absent key is appended, a present
\* key keeps its position
SetItem(c, key, now, result) ==
    IF InCache(c, key)
    THEN [i \in 1..Len(c) |->
            IF c[i].key = key THEN [key |-> key, t |-> now, value |-> result]
            ELSE c[i]]
    ELSE Append(c, [key |-> key, t |-> now, value |-> result])

\* the capacity test off by one: if len(cache) > maxsize + 1
EvictOver_OffByOne(c, maxsize_) == IF Len(c) > maxsize_ + 1 THEN Tail(c) ELSE c

\* popitem() with its default last=True
EvictOver_PopLast(c, maxsize_) ==
    IF Len(c) > maxsize_ THEN SubSeq(c, 1, Len(c) - 1) ELSE c

\* Lines 363-364: if len(cache) > maxsize: cache.popitem(last=False)
EvictOver(c, maxsize_) == IF Len(c) > maxsize_ THEN Tail(c) ELSE c

\* the entries of c that are gone from after, in order
Removed(c, after) == SelectSeq(c, LAMBDA e : ~InCache(after, e.key))

(* ------------------------- history helpers ---------------------------- *)

\* the keys of seq that are keys of c, in order
Restrict(seq, c) == SelectSeq(seq, LAMBDA k : InCache(c, k))

\* key becomes the most recently accessed one
Touch(seq, key) == Append(SelectSeq(seq, LAMBDA k : k # key), key)

(* The record of an operation: op is its outcome, key and now are the key  *)
(* and the time of a call, ret the value returned (the size, for           *)
(* cache_info), t the insertion time of the entry a call returned or       *)
(* stored, invoked whether func was called, evicted the entry popitem      *)
(* removed (a list of no or one entry), before the size of the cache when  *)
(* the operation began, peak the size right after the store of a miss, and *)
(* items the "items" of cache_info, call the arguments of a call, swept    *)
(* the cache as the sweep of a call left it.                               *)
NoLast == [op |-> "none", key |-> <<>>, now |-> 0, ret |-> 0, t |-> 0,
           invoked |-> FALSE, evicted |-> <<>>, before |-> 0, peak |-> 0,
           items |-> <<>>, call |-> [args |-> <<>>, kwargs |-> <<>>],
           swept |-> <<>>]

(* ---------------------------- inputs ---------------------------------- *)

\* f(n) for n in 1..NumArgs, and f([1]), whose key cannot be hashed
Calls ==
    {[args |-> <<PyInt(n)>>, kwargs |-> <<>>] : n \in 1..NumArgs}
    \cup {[args |-> <<PyList(1)>>, kwargs |-> <<>>]}

\* the calls that differ in how the same values are passed: f(1), f(1.0),
\* f(1, b=2, a=3), f(1, a=3, b=2), f(1, ('a', 3)) and f(1, a=3)
F_int == [args |-> <<PyInt(1)>>, kwargs |-> <<>>]
F_float == [args |-> <<PyFloat(1)>>, kwargs |-> <<>>]
F_ba == [args |-> <<PyInt(1)>>,
         kwargs |-> <<<<"b", PyInt(2)>>, <<"a", PyInt(3)>>>>]
F_ab == [args |-> <<PyInt(1)>>,
         kwargs |-> <<<<"a", PyInt(3)>>, <<"b", PyInt(2)>>>>]
F_pair == [args |-> <<PyInt(1), PyTuple("a", 3)>>, kwargs |-> <<>>]
F_a == [args |-> <<PyInt(1)>>, kwargs |-> <<<<"a", PyInt(3)>>>>]

KeyCalls == {F_int, F_float, F_ba, F_ab, F_pair, F_a}

Results == 1..NumResults

\* what time_fn() may return now: the clock is monotonic, so nothing below
\* the value it returned last
Times == clock..MaxTime


(* =================== the other components: state ====================== *)

(* retry(exceptions, attempts, delay, backoff, max_delay)(func) and one     *)
(* call of the wrapper. max_delay is <<>> for None or <<m>>. pc is          *)
(* "undecorated", "idle", "running" (inside the for loop of _sync_call or   *)
(* _async_call), "returned" or "raised". attempt is the value the loop      *)
(* variable takes next, current_delay the local of that name. history       *)
(* lists what each invocation of func did in this call (exc is "" when it   *)
(* returned val), sleeps the delays slept in this call; exc is the          *)
(* exception that left the wrapper and result the value it returned.        *)
RtIdle == [pc |-> "undecorated", exceptions |-> {}, attempts |-> 0,
           delay |-> 0, backoff |-> 0, max_delay |-> <<>>,
           is_coroutine |-> FALSE, attempt |-> 0, current_delay |-> 0,
           history |-> <<>>, sleeps |-> <<>>, exc |-> "", result |-> 0]

(* ensure(pre=, post=)(func) and the last call of the wrapper. A condition   *)
(* is <<>> for None or <<S>> with S the set of inputs on which the callable *)
(* returns a true value. pc is "undecorated", "idle", "returned" or         *)
(* "raised"; arg is the argument of the last call, invoked whether func     *)
(* was invoked in it, result what func returned (0 when it did not), ret    *)
(* what the wrapper returned and exc the exception that left it.            *)
EnIdle == [pc |-> "undecorated", pre |-> <<>>, post |-> <<>>,
           is_coroutine |-> FALSE, arg |-> 0, invoked |-> FALSE,
           result |-> 0, ret |-> 0, exc |-> ""]

\* the events and the listener functions of the event bus
Events == {"order_placed", "order_cancelled"}
Listeners == {"audit_first_order", "on_order_placed"}

\* a listener object: the function fn itself (once = 0) or the _wrapper
\* closure made around fn by the once-th call of once
Plain(fn) == [fn |-> fn, once |-> 0]
Wrapper(fn, k) == [fn |-> fn, once |-> k]

(* An EventEmmiter. pc is "none" before construction and "made" after.      *)
(* keys and lists are the keys and the values of the defaultdict            *)
(* _listeners (lists[e] is <<>> for an event without a key). History:       *)
(* next_once counts the calls of once, emits those of emit, fired[k] how    *)
(* often the listener given to the k-th call of once was invoked, offed     *)
(* holds the pairs <<event, fn>> for which off was called while fn was      *)
(* registered once for event with on and on was not called for them since,  *)
(* and last is the last operation with the listeners it invoked.            *)
NoBusOp == [op |-> "none", event |-> "", fn |-> "", invoked |-> <<>>]
BusIdle == [pc |-> "none", debug |-> FALSE, keys |-> {},
            lists |-> [e \in Events |-> <<>>], next_once |-> 1,
            emits |-> 0, fired |-> [k \in 1..MaxOnce |-> 0], offed |-> {},
            last |-> NoBusOp]

(* A LazyModel. pc is "none" before construction and "made" after.          *)
(* data_cache and loaded_at are the attributes _data_cache and _loaded_at,  *)
(* <<>> for None and <<v>> otherwise; now is the time of time.time().       *)
(* History: reads and loads count the reads of data and the calls of the    *)
(* loader since construction or the last invalidate, ret is what the last   *)
(* read returned and last the last operation.                               *)
LmIdle == [pc |-> "none", data_cache |-> <<>>, loaded_at |-> <<>>,
           now |-> 0, reads |-> 0, loads |-> 0, ret |-> <<>>,
           last |-> "none"]

\* the other components as they are before anything is done with them
(* An ObservableValue. pc is "none" before construction and "made" after.   *)
(* value and observers are the attributes _value and _observers. last is    *)
(* the last operation: for an assignment, new is the value assigned and     *)
(* calls the observer calls it made, each with the callback, its two        *)
(* arguments and the _value the object had when the callback ran (seen).    *)
NoObsOp == [op |-> "none", new |-> 0, calls |-> <<>>]
OvIdle == [pc |-> "none", value |-> 0, observers |-> <<>>, last |-> NoObsOp]

\* the attributes set on an object of a HistoryMeta class
HmKeys == {"hp", "x"}

(* An object of a class made by HistoryMeta. pc is "none" before the object *)
(* exists and "made" after. dict is its __dict__ without _history: the      *)
(* value of each attribute, 0 for an attribute the object does not have     *)
(* (getattr then gives None, written 0 in the history too). has_history     *)
(* tells whether the attribute _history exists and history is its value,    *)
(* a list of [ts, key, old, new]. now is the time of datetime.now(); last   *)
(* is the last operation, with the step given to rewind and the exception   *)
(* it raised ("" for none).                                                 *)
NoHmOp == [op |-> "none", step |-> 0, exc |-> ""]
HmIdle == [pc |-> "none", dict |-> [k \in HmKeys |-> 0],
           has_history |-> FALSE, history |-> <<>>, now |-> 0,
           last |-> NoHmOp]

\* the threads that call the wrapper
Threads == {1, 2}

(* One thread's call of the wrapper. pc is "idle" between calls, and inside *)
(* a call the statement the thread executes next: "delete" (line 349),      *)
(* "lookup" (352), "hit_pop" (354), "hit_set" (355), "store" (360),         *)
(* "check" (363) or "evict" (364). n is the argument of the call, now,      *)
(* to_delete, result, t_inserted and value the locals of these names;       *)
(* calls counts the calls begun, invoked tells whether the call invoked     *)
(* func and outcome is "" during a call and "hit", "miss" or "KeyError"     *)
(* once it is over.                                                         *)
ThIdle == [pc |-> "idle", n |-> 0, now |-> 0, to_delete |-> <<>>,
           result |-> 0, t_inserted |-> 0, value |-> 0, calls |-> 0,
           invoked |-> FALSE, outcome |-> ""]

(* ttl_cache called from two threads without a lock. pc is "undecorated"    *)
(* or "ready"; ttl, maxsize, clock and cache are shared; th[i] is thread    *)
(* i. History: written[n] is the value stored last for f(n) (0 for none);   *)
(* raced is n when the two calls in progress or last completed are both     *)
(* calls f(n) that found no entry before either stored one, else 0.         *)
CcIdle == [pc |-> "undecorated", ttl |-> 0, maxsize |-> 0, clock |-> 0,
           cache |-> <<>>, th |-> [i \in Threads |-> ThIdle],
           written |-> [n \in 1..MaxThreadArg |-> 0], raced |-> 0]

(* ttl_cache around a coroutine function (async def func). pc is            *)
(* "undecorated" or "ready"; ttl, maxsize, clock and cache are as for the   *)
(* synchronous wrapper, the value of an entry being the number of a         *)
(* coroutine object. coros[c] is the state of coroutine object c, "pending" *)
(* until it is awaited and "done" after; held is the object the last call   *)
(* returned to its caller (0 for none) and last the last operation, with    *)
(* the exception an await raised ("" for none).                             *)
NoAcOp == [op |-> "none", exc |-> ""]
AcIdle == [pc |-> "undecorated", ttl |-> 0, maxsize |-> 0, clock |-> 0,
           cache |-> <<>>, coros |-> <<>>, held |-> 0, last |-> NoAcOp]

OthersIdle ==
    /\ rt = RtIdle /\ en = EnIdle /\ bus = BusIdle /\ lm = LmIdle
    /\ ov = OvIdle /\ hm = HmIdle /\ cc = CcIdle /\ ac = AcIdle

(* ---------------------------- actions --------------------------------- *)

Init ==
    /\ decorated = FALSE
    /\ ttl = 0
    /\ maxsize = 0
    /\ typed = FALSE
    /\ clock = 0
    /\ cache = <<>>
    /\ last = NoLast
    /\ stored = {}
    /\ recency = <<>>
    /\ OthersIdle

(* ttl_cache(ttl=t, maxsize=m, typed=ty)(func): lines 291-387. Nothing in   *)
(* ttl_cache or decorator inspects the parameters: the wrapper is returned  *)
(* for every value of them, with an empty cache.                            *)
ttl_cache(t, m, ty) ==
    /\ ~decorated
    /\ decorated' = TRUE
    /\ ttl' = t
    /\ maxsize' = m
    /\ typed' = ty
    /\ cache' = <<>>
    /\ last' = [NoLast EXCEPT !.op = "decorate"]
    /\ UNCHANGED <<clock, stored, recency, notCache>>

(* wrapper called with arguments whose key is unhashable: the key tuple is  *)
(* built (338) and the sweep runs (341-350) before `key in cache` (352)     *)
(* hashes the key and raises TypeError.                                     *)
wrapper_unhashable(call) ==
    \E now \in Times :
    LET key == make_key(call.args, call.kwargs, typed)
    IN  /\ decorated
        /\ clock' = now
        /\ ~Hashable(key)
        /\ cache' = Sweep(cache, now, ttl)
        /\ last' = [NoLast EXCEPT !.op = "typeerror", !.key = key, !.now = now,
                                  !.call = call,
                                  !.swept = Sweep(cache, now, ttl),
                                  !.before = Len(cache)]
        /\ recency' = Restrict(recency, cache')
        /\ UNCHANGED <<decorated, ttl, maxsize, typed, stored, notCache>>

\* wrapper called, the key found after the sweep: lines 337-356
wrapper_hit(call) ==
    \E now \in Times :
    LET key == make_key(call.args, call.kwargs, typed)
        swept == Sweep(cache, now, ttl)
    IN  /\ decorated
        /\ clock' = now
        /\ Hashable(key)
        /\ InCache(swept, key)
        /\ cache' = MoveToEnd(swept, key)
        /\ last' = [NoLast EXCEPT !.op = "hit", !.key = key, !.now = now,
                                  !.call = call,
                                  !.swept = Sweep(cache, now, ttl),
                                  !.ret = Entry(swept, key).value,
                                  !.t = Entry(swept, key).t,
                                  !.before = Len(cache)]
        /\ recency' = Restrict(Touch(recency, key), cache')
        /\ UNCHANGED <<decorated, ttl, maxsize, typed, stored, notCache>>

(* wrapper called, the key not found after the sweep and func returning     *)
(* result: lines 337-350 and 358-366.                                       *)
wrapper_miss(call, result) ==
    \E now \in Times :
    LET key == make_key(call.args, call.kwargs, typed)
        swept == Sweep(cache, now, ttl)
        full == SetItem(swept, key, now, result)
        after == EvictOver(full, maxsize)
        evicted == Removed(full, after)
    IN  /\ decorated
        /\ clock' = now
        /\ Hashable(key)
        /\ ~InCache(swept, key)
        /\ cache' = after
        /\ last' = [NoLast EXCEPT !.op = "miss", !.key = key, !.now = now,
                                  !.call = call,
                                  !.swept = Sweep(cache, now, ttl),
                                  !.ret = result, !.t = now, !.invoked = TRUE,
                                  !.evicted = evicted, !.before = Len(cache),
                                  !.peak = Len(full)]
        /\ stored' = {e \in {e0 \in stored : e0.key # key}
                             \cup {[key |-> key, t |-> now, value |-> result,
                                    by |-> call]} :
                        \A i \in 1..Len(evicted) : evicted[i].key # e.key}
        /\ recency' = Restrict(Touch(recency, key), cache')
        /\ UNCHANGED <<decorated, ttl, maxsize, typed, notCache>>

\* a wrapper that records the failed call: the store in a finally clause
wrapper_raise_caches(call) ==
    \E now \in Times :
    LET key == make_key(call.args, call.kwargs, typed)
        swept == Sweep(cache, now, ttl)
    IN  /\ decorated
        /\ clock' = now
        /\ Hashable(key)
        /\ ~InCache(swept, key)
        /\ cache' = SetItem(swept, key, now, 1)
        /\ last' = [NoLast EXCEPT !.op = "raise", !.key = key, !.now = now,
                                  !.call = call,
                                  !.swept = Sweep(cache, now, ttl),
                                  !.invoked = TRUE, !.before = Len(cache)]
        /\ recency' = Restrict(Touch(recency, key), cache')
        /\ UNCHANGED <<decorated, ttl, maxsize, typed, stored, notCache>>

(* wrapper called, the key not found after the sweep and func raising: the  *)
(* exception leaves wrapper at line 359, after the sweep.                   *)
wrapper_raise(call) ==
    \E now \in Times :
    LET key == make_key(call.args, call.kwargs, typed)
        swept == Sweep(cache, now, ttl)
    IN  /\ decorated
        /\ clock' = now
        /\ Hashable(key)
        /\ ~InCache(swept, key)
        /\ cache' = swept
        /\ last' = [NoLast EXCEPT !.op = "raise", !.key = key, !.now = now,
                                  !.call = call,
                                  !.swept = Sweep(cache, now, ttl),
                                  !.invoked = TRUE, !.before = Len(cache)]
        /\ recency' = Restrict(recency, cache')
        /\ UNCHANGED <<decorated, ttl, maxsize, typed, stored, notCache>>

\* a cache_clear that rebinds a local name and clears nothing
cache_clear_noop ==
    /\ decorated
    /\ cache' = cache
    /\ last' = [NoLast EXCEPT !.op = "clear", !.before = Len(cache)]
    /\ UNCHANGED <<decorated, ttl, maxsize, typed, clock, stored, recency, notCache>>

\* wrapper.cache_clear(): lines 369-371
cache_clear ==
    /\ decorated
    /\ cache' = <<>>
    /\ last' = [NoLast EXCEPT !.op = "clear", !.before = Len(cache)]
    /\ stored' = {}
    /\ recency' = <<>>
    /\ UNCHANGED <<decorated, ttl, maxsize, typed, clock, notCache>>

\* a cache_info that sweeps before it reports
cache_info_sweeps ==
    /\ decorated
    /\ \E now \in Times :
          /\ clock' = now
          /\ cache' = Sweep(cache, now, ttl)
    /\ last' = [NoLast EXCEPT !.op = "info", !.ret = Len(cache'),
                              !.items = Keys(cache'), !.before = Len(cache)]
    /\ recency' = Restrict(recency, cache')
    /\ UNCHANGED <<decorated, ttl, maxsize, typed, stored, notCache>>

\* wrapper.cache_info(): lines 373-380; ret holds "size", items holds "items"
cache_info ==
    /\ decorated
    /\ cache' = cache
    /\ last' = [NoLast EXCEPT !.op = "info", !.ret = Len(cache),
                              !.items = Keys(cache), !.before = Len(cache)]
    /\ UNCHANGED <<decorated, ttl, maxsize, typed, clock, stored, recency, notCache>>

Next ==
    \/ \E t \in 0..MaxTtl, m \in 0..MaxMaxsize, ty \in BOOLEAN : ttl_cache(t, m, ty)
    \/ \E call \in Calls : wrapper_unhashable(call)
    \/ \E call \in Calls : wrapper_hit(call)
    \/ \E call \in Calls, result \in Results : wrapper_miss(call, result)
    \/ \E call \in Calls : wrapper_raise(call)
    \/ cache_clear
    \/ cache_info

Spec == Init /\ [][Next]_vars

(* ------------------------- claim helpers ------------------------------ *)

\* the outcomes of a wrapper call whose key could be hashed
CallOps == {"hit", "miss", "raise"}

\* this step is the operation op, which last' records
Does(op) == last'.op = op

(* c2 is c without a leading run of entries, all of them older than ttl at  *)
(* now: what remains kept its keys, timestamps, values and order.           *)
OnlyExpiredHeadRemoved(c, c2, now) ==
    \E n \in 0..Len(c) :
        /\ c2 = SubSeq(c, n + 1, Len(c))
        /\ \A i \in 1..n : now - c[i].t > ttl

\* no entry of the cache is older than ttl at now
NoneExpired(now) == \A i \in 1..Len(cache) : now - cache[i].t <= ttl

(* ------- C1: at most maxsize entries after every operation ------------ *)

(* C1: for maxsize >= 1, after every completed operation the cache holds at *)
(* most maxsize entries, expired or not; only inside a miss, between the    *)
(* store and the eviction, does it hold one more.                           *)
C1_SizeBound ==
    (decorated /\ maxsize >= 1) =>
        /\ Len(cache) <= maxsize
        /\ last.op = "miss" => last.peak <= maxsize + 1

C1_Witness ==
    /\ decorated /\ maxsize >= 1
    /\ last.op = "miss" /\ last.peak = maxsize + 1
    /\ Len(cache) = maxsize

(* ------- C2: no expired value is returned as a hit --------------------- *)

(* C2: with ttl > 0 and maxsize > 0, a call that returns a stored value     *)
(* returns one whose insertion time t0 satisfies now - t0 <= ttl.           *)
C2_NoExpiredHit ==
    (decorated /\ ttl > 0 /\ maxsize > 0 /\ last.op = "hit") =>
        last.now - last.t <= ttl

(* ------- C3: a stored, unexpired key is a hit -------------------------- *)

(* C3: if a key was stored at t0 and was since neither evicted for capacity *)
(* nor cleared, a call with it at a time now with now - t0 < ttl is a hit:  *)
(* it returns the value stored by that miss and does not invoke func.       *)
C3_FreshIsHit ==
    [][\A e \in stored :
          (/\ last'.op \in CallOps
            /\ last'.key = e.key
            /\ last'.now - e.t < ttl)
          => (last'.op = "hit" /\ last'.ret = e.value /\ ~last'.invoked)]_vars

C3_Witness ==
    /\ last.op = "hit"
    /\ last.now > last.t
    /\ last.now - last.t < ttl
    /\ \E e \in stored : e.key = last.key /\ e.t = last.t /\ e.value = last.ret

(* ------- C4: the entry evicted is the least recently used -------------- *)

\* an overflowing miss, no entry being expired, evicts the stored key whose
\* most recent access is the oldest
LRUStep ==
    (Does("miss") /\ last'.evicted # <<>> /\ NoneExpired(last'.now)) =>
        /\ Len(last'.evicted) = 1
        /\ last'.evicted[1].key = Head(Append(recency, last'.key))

\* the key of a hit is not the one the next, overflowing, miss evicts
HitProtectedStep ==
    (Does("miss") /\ last'.evicted # <<>> /\ NoneExpired(last'.now) /\ last.op = "hit") =>
        last'.evicted[1].key # last.key

(* C4 as stated: the evicted entry is the least recently used one, and a    *)
(* key that was hit before the overflowing insertion is not the one         *)
(* evicted, for every maxsize = k >= 1 (and ttl > 0).                       *)
C4_Original ==
    [][(ttl > 0 /\ maxsize > 0) => (LRUStep /\ HitProtectedStep)]_vars

(* C4 as amended: the evicted entry is the least recently used one, and     *)
(* for maxsize >= 2 a key that was hit just before the overflowing          *)
(* insertion is not the one evicted.                                        *)
C4_LRU == [][LRUStep /\ (maxsize >= 2 => HitProtectedStep)]_vars

\* an eviction that spared an entry inserted before the evicted one
C4_Witness ==
    /\ maxsize >= 2
    /\ last.op = "miss" /\ last.evicted # <<>>
    /\ \E i \in 1..Len(cache) : cache[i].t < last.evicted[1].t

(* ------- C5: a hit only moves the entry -------------------------------- *)

(* C5: a hit makes the hit entry the most recently used one and keeps its   *)
(* timestamp and value; no entry is added, and the other entries keep       *)
(* their timestamps, values and relative order (the entries the sweep of    *)
(* the same call dropped were all older than ttl).                          *)
C5_HitFrame ==
    [][Does("hit") =>
         LET k == last'.key IN
         /\ InCache(cache, k) /\ InCache(cache', k)
         /\ cache'[Len(cache')].key = k
         /\ Entry(cache', k) = Entry(cache, k)
         /\ last'.ret = Entry(cache, k).value
         /\ ~last'.invoked
         /\ Len(cache') <= Len(cache)
         /\ OnlyExpiredHeadRemoved(Pop(cache, k), Pop(cache', k), last'.now)
         /\ stored' = stored]_vars

\* the hit entry went behind an entry inserted after it
C5_Witness ==
    /\ last.op = "hit"
    /\ Len(cache) = 2
    /\ cache[2].key = last.key
    /\ cache[2].t < cache[1].t

(* ------- C6: a failed computation is not cached ------------------------ *)

(* C6: when func raises on a miss, the call raises, no entry is added or    *)
(* updated, nothing is evicted for capacity, and the next call with the     *)
(* same key invokes func again.                                             *)
C6_RaiseFrame ==
    [][/\ Does("raise") =>
            /\ last'.invoked
            /\ ~InCache(cache', last'.key)
            /\ last'.evicted = <<>>
            /\ OnlyExpiredHeadRemoved(cache, cache', last'.now)
            /\ stored' = stored
       /\ (/\ last.op = "raise"
           /\ last'.op \in CallOps
           /\ last'.key = last.key) => last'.invoked]_vars

\* func raised when the cache was full: a store would have evicted
C6_Witness ==
    /\ last.op = "raise"
    /\ maxsize >= 1
    /\ Len(cache) = maxsize

(* ------- C7: invalid parameters are rejected --------------------------- *)

(* C7: no wrapper exists for ttl <= 0 or maxsize <= 0.                      *)
C7_FailFast == decorated => (ttl > 0 /\ maxsize > 0)

(* ------- C8: an unhashable call leaves the cache alone ----------------- *)

(* C8: with ttl > 0 and maxsize > 0, a call whose key cannot be hashed      *)
(* raises without invoking func and leaves the cache exactly as it was,     *)
(* entries that were already expired included.                              *)
C8_Unmodified ==
    [][(Does("typeerror") /\ ttl > 0 /\ maxsize > 0) =>
          (cache' = cache /\ ~last'.invoked)]_vars

(* ------- C9: cache_info is read-only ----------------------------------- *)

(* C9: cache_info removes no entry, changes no timestamp, value or order,   *)
(* and reports the number of stored entries and the keys in recency order.  *)
C9_InfoReadOnly ==
    [][Does("info") =>
         /\ cache' = cache
         /\ last'.ret = Len(cache)
         /\ Len(last'.items) = Len(cache)
         /\ \A i \in 1..Len(cache) : last'.items[i] = cache[i].key]_vars

\* cache_info reported a cache that holds an expired entry
C9_Witness ==
    /\ last.op = "info"
    /\ last.ret = Len(cache)
    /\ Len(cache) >= 2
    /\ \E i \in 1..Len(cache) : clock - cache[i].t > ttl

(* ------- C10: cache_clear empties the cache ---------------------------- *)

(* C10: cache_clear leaves no entry, and the next call, for any key, is a   *)
(* miss that invokes func.                                                  *)
C10_ClearEmpties ==
    [][/\ Does("clear") => Len(cache') = 0
       /\ (/\ last.op = "clear"
           /\ last'.op \in CallOps) => (last'.op # "hit" /\ last'.invoked)]_vars

\* cache_clear ran on a cache that was full
C10_Witness ==
    /\ last.op = "clear"
    /\ maxsize >= 2
    /\ last.before = maxsize
    /\ Len(cache) = 0

(* ============ ttl_cache: the calls that exercise make_key ============= *)

\* the wrapped function: one more than the number of named arguments it
\* is called with
KeyFunc(call) == Len(call.kwargs) + 1

(* The wrapper of ttl_cache(ttl=MaxTtl, maxsize=MaxMaxsize, typed=ty)       *)
(* around KeyFunc, called with the calls of KeyCalls.                       *)
NextKeys ==
    \/ \E ty \in BOOLEAN : ttl_cache(MaxTtl, MaxMaxsize, ty)
    \/ \E call \in KeyCalls : wrapper_hit(call)
    \/ \E call \in KeyCalls : wrapper_miss(call, KeyFunc(call))

SpecKeys == Init /\ [][NextKeys]_vars

(* ----------------------- make_key: claims ----------------------------- *)

\* the (name, value) pairs of a call's named arguments
KwSet(call) == {call.kwargs[i] : i \in 1..Len(call.kwargs)}

\* the same positional arguments and the same named pairs, in any order
Permuted(c1, c2) == c1.args = c2.args /\ KwSet(c1) = KwSet(c2)

(* C11: two calls with the same positional arguments and the same named     *)
(* (name, value) pairs have the same key whatever the order of the named    *)
(* arguments, typed or not; and a call made while an entry stored by such   *)
(* a call is unexpired is a hit that returns the stored value.              *)
C11_KwargOrder ==
    [][/\ \A c1, c2 \in KeyCalls :
             Permuted(c1, c2) =>
                 make_key(c1.args, c1.kwargs, typed)
                     = make_key(c2.args, c2.kwargs, typed)
       /\ \A e \in stored :
             (/\ last'.op \in CallOps
              /\ Permuted(e.by, last'.call)
              /\ last'.now - e.t <= ttl)
             => (last'.op = "hit" /\ last'.ret = e.value /\ ~last'.invoked)]_vars

\* f(1, a=3, b=2) hits the entry stored by f(1, b=2, a=3), or the reverse
C11_Witness ==
    /\ last.op = "hit"
    /\ \E e \in stored :
          /\ e.key = last.key
          /\ e.t = last.t
          /\ e.by # last.call
          /\ e.by.kwargs # <<>>
          /\ Permuted(e.by, last.call)

(* C12: with typed, f(1) and f(1.0) have distinct keys, so a call of one    *)
(* never uses an entry stored by the other and invokes func unless an       *)
(* entry of its own is stored; without typed they have the same key and a   *)
(* call of one while the entry stored by the other is unexpired is a hit.   *)
C12_Typed ==
    [][\A e \in stored :
          (/\ last'.op \in CallOps
           /\ {e.by, last'.call} = {F_int, F_float}
           /\ last'.now - e.t <= ttl)
          => IF typed
             THEN /\ last'.key # e.key
                  /\ (\A e2 \in stored : e2.by # last'.call) => last'.invoked
             ELSE /\ last'.key = e.key
                  /\ last'.op = "hit"
                  /\ last'.ret = e.value
                  /\ ~last'.invoked]_vars

\* typed: f(1.0) invokes func while the entry of f(1) is stored and unexpired
C12_Witness ==
    /\ typed
    /\ last.op = "miss"
    /\ last.call = F_float
    /\ Len(cache) = 2
    /\ \E e \in stored : e.by = F_int /\ last.now - e.t <= ttl

\* the named arguments of a call as key parts, and their types by name
KwValues(call) ==
    {PairPart(call.kwargs[i][1], call.kwargs[i][2]) : i \in 1..Len(call.kwargs)}
KwTypes(call) ==
    {<<call.kwargs[i][1], call.kwargs[i][2].ty>> : i \in 1..Len(call.kwargs)}

(* the positional arguments are equal element-wise, the sets of named       *)
(* (name, value) pairs are equal and, when typed, the types match pairwise  *)
SameCall(c1, c2, typed_) ==
    /\ Len(c1.args) = Len(c2.args)
    /\ \A i \in 1..Len(c1.args) : ValuePart(c1.args[i]) = ValuePart(c2.args[i])
    /\ KwValues(c1) = KwValues(c2)
    /\ typed_ =>
          /\ \A i \in 1..Len(c1.args) : c1.args[i].ty = c2.args[i].ty
          /\ KwTypes(c1) = KwTypes(c2)

(* C13: a call uses the entry a call stored (the key it looks up is the     *)
(* key of that entry) if and only if the two are the same call in the       *)
(* sense of SameCall.                                                       *)
C13_ShareIff ==
    last.op \in {"hit", "miss"} =>
        \A e \in stored :
            (e.key = last.key) <=> SameCall(e.by, last.call, typed)

(* ======================= retry (lines 130-229) ======================== *)

\* the exception classes func may raise or retry may be given, with their
\* base class
ExcBase ==
    [e \in {"ValueError", "KeyError", "Exception", "KeyboardInterrupt",
            "BaseException"} |->
        CASE e \in {"ValueError", "KeyError"} -> "Exception"
          [] e \in {"Exception", "KeyboardInterrupt"} -> "BaseException"
          [] OTHER -> ""]

RECURSIVE IsSubclass(_, _)
\* issubclass(e, t)
IsSubclass(e, t) ==
    IF e = t THEN TRUE
    ELSE IF ExcBase[e] = "" THEN FALSE
    ELSE IsSubclass(ExcBase[e], t)

\* an except clause that catches everything
Caught_Bare(e, exc_tuple) == TRUE

\* except exc_tuple: the exception is an instance of one of the classes
Caught(e, exc_tuple) == \E t \in exc_tuple : IsSubclass(e, t)

\* the last-attempt test one too late: if attempt == attempts + 1
IsLastAttempt_Late(attempt, attempts) == attempt = attempts + 1

\* Lines 170, 198: if attempt == attempts
IsLastAttempt(attempt, attempts) == attempt = attempts

Min(a, b) == IF a <= b THEN a ELSE b

\* Lines 214-216 (186-188): current_delay *= backoff, then the cap
NextDelay(current_delay, backoff, max_delay) ==
    IF max_delay # <<>>
    THEN Min(current_delay * backoff, max_delay[1])
    ELSE current_delay * backoff

\* the exception classes given to retry: the default (Exception,) and two
\* narrower choices
ExceptionChoices == {{"Exception"}, {"ValueError"}, {"ValueError", "KeyError"}}

\* what func may raise
Raisable == {"ValueError", "KeyError", "KeyboardInterrupt"}

\* the variables retry leaves alone
notRetry == <<cacheVars, en, bus, lm, ov, hm, cc, ac>>

(* retry(exceptions, attempts=, delay=, backoff=, max_delay=)(func): the    *)
(* wrapper is async_wrapper when func is a coroutine function, else         *)
(* sync_wrapper; both run the same loop.                                    *)
retry(exceptions, attempts, delay, backoff, max_delay, is_coroutine) ==
    /\ rt.pc = "undecorated"
    /\ rt' = [RtIdle EXCEPT !.pc = "idle", !.exceptions = exceptions,
                            !.attempts = attempts, !.delay = delay,
                            !.backoff = backoff, !.max_delay = max_delay,
                            !.is_coroutine = is_coroutine]
    /\ UNCHANGED notRetry

\* the wrapper is called: current_delay = delay (lines 165, 193)
retry_call ==
    /\ rt.pc \in {"idle", "returned", "raised"}
    /\ rt' = [rt EXCEPT !.pc = "running", !.attempt = 1,
                        !.current_delay = rt.delay, !.history = <<>>,
                        !.sleeps = <<>>, !.exc = "", !.result = 0]
    /\ UNCHANGED notRetry

\* one iteration of the loop in which func returns val (lines 168, 196)
retry_attempt_returns(val) ==
    /\ rt.pc = "running"
    /\ rt.attempt <= rt.attempts
    /\ rt' = [rt EXCEPT !.pc = "returned", !.result = val,
                        !.history = Append(@, [exc |-> "", val |-> val])]
    /\ UNCHANGED notRetry

(* one iteration of the loop in which func raises e: an exception the       *)
(* except clause does not catch leaves the wrapper; a caught one is         *)
(* re-raised on the last attempt, and otherwise the loop sleeps             *)
(* current_delay, updates it and goes on (lines 169-188, 197-216).          *)
retry_attempt_raises(e) ==
    /\ rt.pc = "running"
    /\ rt.attempt <= rt.attempts
    /\ IF ~Caught(e, rt.exceptions) \/ IsLastAttempt(rt.attempt, rt.attempts)
       THEN rt' = [rt EXCEPT !.pc = "raised", !.exc = e,
                             !.history = Append(@, [exc |-> e, val |-> 0])]
       ELSE rt' = [rt EXCEPT !.attempt = @ + 1,
                             !.sleeps = Append(@, rt.current_delay),
                             !.current_delay =
                                 NextDelay(@, rt.backoff, rt.max_delay),
                             !.history = Append(@, [exc |-> e, val |-> 0])]
    /\ UNCHANGED notRetry

\* the loop ends without a return or a raise: lines 190, 217
retry_loop_ends ==
    /\ rt.pc = "running"
    /\ rt.attempt > rt.attempts
    /\ rt' = [rt EXCEPT !.pc = "raised", !.exc = "RuntimeError"]
    /\ UNCHANGED notRetry

NextRetry ==
    \/ \E exceptions \in ExceptionChoices, attempts \in 0..MaxAttempts,
          delay \in 0..MaxFirstDelay, backoff \in 1..MaxBackoff,
          max_delay \in {<<>>} \cup {<<m>> : m \in 1..MaxCap},
          is_coroutine \in BOOLEAN :
          retry(exceptions, attempts, delay, backoff, max_delay, is_coroutine)
    \/ retry_call
    \/ \E val \in Results : retry_attempt_returns(val)
    \/ \E e \in Raisable : retry_attempt_raises(e)
    \/ retry_loop_ends

SpecRetry == Init /\ [][NextRetry]_vars

(* ------------------------- retry: claims ------------------------------ *)

\* e is an instance of one of the classes given to retry
Listed(e) == e # "" /\ \E t \in rt.exceptions : IsSubclass(e, t)

\* the first i entries of the history are listed exceptions
AllListed(i) == \A j \in 1..i : Listed(rt.history[j].exc)

RECURSIVE Pow(_, _)
Pow(b, k) == IF k = 0 THEN 1 ELSE b * Pow(b, k - 1)

(* C14: with attempts = n >= 1 func is invoked at most n times per call;    *)
(* while the loop runs every invocation so far raised a listed exception    *)
(* and fewer than n were made; a call that returned at invocation i         *)
(* returns that invocation's result after i - 1 listed failures and i - 1   *)
(* sleeps; and when all n invocations raised a listed exception the call    *)
(* has raised the exception of the n-th, after n - 1 sleeps.                *)
C14_AtMostN ==
    rt.attempts >= 1 =>
        LET i == Len(rt.history) IN
        /\ i <= rt.attempts
        /\ rt.pc = "running" =>
              /\ i < rt.attempts
              /\ AllListed(i)
              /\ Len(rt.sleeps) = i
        /\ rt.pc = "returned" =>
              /\ rt.history[i].exc = ""
              /\ rt.result = rt.history[i].val
              /\ AllListed(i - 1)
              /\ Len(rt.sleeps) = i - 1
        /\ (i = rt.attempts /\ AllListed(i)) =>
              /\ rt.pc = "raised"
              /\ rt.exc = rt.history[i].exc
              /\ Len(rt.sleeps) = i - 1

\* a call that failed twice and returned at its third invocation
C14_Witness ==
    /\ rt.pc = "returned"
    /\ rt.attempts = MaxAttempts
    /\ Len(rt.history) = 3
    /\ Len(rt.sleeps) = 2

(* C15: an exception that is not an instance of a listed class is the last  *)
(* thing its call did: it has left the wrapper, no invocation follows it    *)
(* and no sleep was made after it.                                          *)
C15_OthersPropagate ==
    \A j \in 1..Len(rt.history) :
        (rt.history[j].exc # "" /\ ~Listed(rt.history[j].exc)) =>
            /\ j = Len(rt.history)
            /\ rt.pc = "raised"
            /\ rt.exc = rt.history[j].exc
            /\ Len(rt.sleeps) = j - 1

\* an exception outside the list propagates on the second of three attempts
C15_Witness ==
    /\ rt.pc = "raised"
    /\ rt.attempts = MaxAttempts
    /\ Len(rt.history) = 2
    /\ ~Listed(rt.exc)
    /\ Len(rt.sleeps) = 1

(* C16: when max_delay is set no sleep is longer than it, and the k-th      *)
(* sleep is min(delay * backoff^(k-1), max_delay).                          *)
C16_Capped ==
    rt.max_delay # <<>> =>
        \A k \in 1..Len(rt.sleeps) :
            /\ rt.sleeps[k] <= rt.max_delay[1]
            /\ rt.sleeps[k] =
                  Min(rt.delay * Pow(rt.backoff, k - 1), rt.max_delay[1])

(* ======================= ensure (lines 236-284) ======================= *)

\* the arguments the wrapped function is called with
EnArgs == 1..NumResults

\* the precondition test left out
PreFails_Skipped(pre, x) == FALSE

\* Lines 265, 275: pre is not None and not pre(x)
PreFails(pre, x) == pre # <<>> /\ x \notin pre[1]

\* Lines 268, 278: post is not None and not post(result, x)
PostFails(post, result, x) == post # <<>> /\ <<result, x>> \notin post[1]

\* the variables ensure leaves alone
notEnsure == <<cacheVars, rt, bus, lm, ov, hm, cc, ac>>

(* ensure(pre=pre, post=post)(func): the wrapper is async_wrapper when func *)
(* is a coroutine function, else sync_wrapper; both make the same tests.    *)
ensure(pre, post, is_coroutine) ==
    /\ en.pc = "undecorated"
    /\ en' = [EnIdle EXCEPT !.pc = "idle", !.pre = pre, !.post = post,
                            !.is_coroutine = is_coroutine]
    /\ UNCHANGED notEnsure

\* a call on which the precondition fails (lines 275-276)
ensure_call_pre_fails(x) ==
    /\ en.pc # "undecorated"
    /\ PreFails(en.pre, x)
    /\ en' = [en EXCEPT !.pc = "raised", !.arg = x, !.invoked = FALSE,
                        !.result = 0, !.ret = 0, !.exc = "AssertionError"]
    /\ UNCHANGED notEnsure

\* a call in which func is invoked and returns result (lines 275-280)
ensure_call_returns(x, result) ==
    /\ en.pc # "undecorated"
    /\ ~PreFails(en.pre, x)
    /\ IF PostFails(en.post, result, x)
       THEN en' = [en EXCEPT !.pc = "raised", !.arg = x, !.invoked = TRUE,
                             !.result = result, !.ret = 0,
                             !.exc = "AssertionError"]
       ELSE en' = [en EXCEPT !.pc = "returned", !.arg = x, !.invoked = TRUE,
                             !.result = result, !.ret = result, !.exc = ""]
    /\ UNCHANGED notEnsure

\* a call in which func is invoked and raises e (line 277)
ensure_call_raises(x, e) ==
    /\ en.pc # "undecorated"
    /\ ~PreFails(en.pre, x)
    /\ en' = [en EXCEPT !.pc = "raised", !.arg = x, !.invoked = TRUE,
                        !.result = 0, !.ret = 0, !.exc = e]
    /\ UNCHANGED notEnsure

NextEnsure ==
    \/ \E pre \in {<<>>} \cup {<<S>> : S \in SUBSET EnArgs},
          post \in {<<>>} \cup {<<S>> : S \in SUBSET (Results \X EnArgs)},
          is_coroutine \in BOOLEAN :
          ensure(pre, post, is_coroutine)
    \/ \E x \in EnArgs : ensure_call_pre_fails(x)
    \/ \E x \in EnArgs, result \in Results : ensure_call_returns(x, result)
    \/ \E x \in EnArgs, e \in Raisable : ensure_call_raises(x, e)

SpecEnsure == Init /\ [][NextEnsure]_vars

(* ------------------------- ensure: claims ----------------------------- *)

(* C17: the wrapper has returned only if pre (when given) held on the       *)
(* argument and post (when given) held on the returned value and the        *)
(* argument, and the value is func's result; a call whose argument fails    *)
(* pre raised AssertionError without invoking func; a call in which func    *)
(* returned a result that fails post raised AssertionError.                 *)
C17_Contract ==
    LET preHeld == en.pre = <<>> \/ en.arg \in en.pre[1]
        postHeld(r) == en.post = <<>> \/ <<r, en.arg>> \in en.post[1]
    IN  /\ en.pc = "returned" =>
              /\ preHeld
              /\ en.invoked
              /\ en.ret = en.result
              /\ postHeld(en.ret)
        /\ (en.pc = "raised" /\ ~preHeld) =>
              /\ ~en.invoked
              /\ en.exc = "AssertionError"
        /\ (en.pc = "raised" /\ en.result # 0 /\ ~postHeld(en.result)) =>
              en.exc = "AssertionError"

\* with both conditions given, pre held, func returned and post failed
C17_Witness ==
    /\ en.pc = "raised"
    /\ en.pre # <<>>
    /\ en.post # <<>>
    /\ en.invoked
    /\ en.result # 0
    /\ en.exc = "AssertionError"

(* ============ EventEmmiter (event_emmiterprojekt/events.py) =========== *)

RECURSIVE RemoveFirst(_, _)
\* list.remove(x): the list without its first occurrence of x; a list
\* without x is returned as it is (the ValueError is swallowed, lines 36-37)
RemoveFirst(list, x) ==
    IF list = <<>> THEN <<>>
    ELSE IF Head(list) = x THEN Tail(list)
    ELSE <<Head(list)>> \o RemoveFirst(Tail(list), x)

\* how often x occurs in list
Count(list, x) == Cardinality({i \in 1..Len(list) : list[i] = x})

(* off(event, listener), lines 28-37, on the dict d = [keys, lists]: the    *)
(* method returns when event has a key; otherwise _listeners[event] makes   *)
(* the key with an empty list, from which the listener is removed.          *)
Off(d, event, listener) ==
    IF event \in d.keys
    THEN d
    ELSE [keys |-> d.keys \cup {event},
          lists |-> [d.lists EXCEPT ![event] = RemoveFirst(@, listener)]]

RECURSIVE RunListeners(_, _, _)
(* Lines 55-56: the listeners of the copied list are called in order. A     *)
(* plain listener changes nothing in the bus; a _wrapper (lines 42-46)      *)
(* calls off(event, _wrapper) and then the listener it wraps. The result    *)
(* is the dict and the fired counts after the calls.                        *)
RunListeners(copy, event, st) ==
    IF copy = <<>> THEN st
    ELSE LET l == Head(copy)
             st2 == IF l.once = 0 THEN st
                    ELSE [d |-> Off(st.d, event, l),
                          fired |-> [st.fired EXCEPT ![l.once] = @ + 1]]
         IN  RunListeners(Tail(copy), event, st2)

\* the variables the event bus leaves alone
notBus == <<cacheVars, rt, en, lm, ov, hm, cc, ac>>

\* EventEmmiter(debug): lines 19-21
EventEmmiter(debug) ==
    /\ bus.pc = "none"
    /\ bus' = [BusIdle EXCEPT !.pc = "made", !.debug = debug]
    /\ UNCHANGED notBus

\* on(event, fn): lines 23-26
on(event, fn) ==
    /\ bus.pc = "made"
    /\ Len(bus.lists[event]) < MaxListeners
    /\ bus' = [bus EXCEPT !.keys = @ \cup {event},
                          !.lists[event] = Append(@, Plain(fn)),
                          !.offed = @ \ {<<event, fn>>},
                          !.last = [NoBusOp EXCEPT !.op = "on",
                                       !.event = event, !.fn = fn]]
    /\ UNCHANGED notBus

\* off(event, fn): lines 28-37
off(event, fn) ==
    /\ bus.pc = "made"
    /\ LET d == Off([keys |-> bus.keys, lists |-> bus.lists], event,
                    Plain(fn))
       IN  bus' = [bus EXCEPT !.keys = d.keys,
                              !.lists = d.lists,
                              !.offed =
                                  IF Count(bus.lists[event], Plain(fn)) = 1
                                  THEN @ \cup {<<event, fn>>} ELSE @,
                              !.last = [NoBusOp EXCEPT !.op = "off",
                                           !.event = event, !.fn = fn]]
    /\ UNCHANGED notBus

\* once(event, fn): lines 39-48, registering a new _wrapper with on
once(event, fn) ==
    /\ bus.pc = "made"
    /\ bus.next_once <= MaxOnce
    /\ Len(bus.lists[event]) < MaxListeners
    /\ bus' = [bus EXCEPT !.keys = @ \cup {event},
                          !.lists[event] =
                              Append(@, Wrapper(fn, bus.next_once)),
                          !.next_once = @ + 1,
                          !.last = [NoBusOp EXCEPT !.op = "once",
                                       !.event = event, !.fn = fn]]
    /\ UNCHANGED notBus

\* emit(event): lines 50-56
emit(event) ==
    /\ bus.pc = "made"
    /\ bus.emits < MaxEmits
    /\ LET copy == IF event \in bus.keys THEN bus.lists[event] ELSE <<>>
           st == RunListeners(copy, event,
                     [d |-> [keys |-> bus.keys, lists |-> bus.lists],
                      fired |-> bus.fired])
       IN  bus' = [bus EXCEPT !.keys = st.d.keys,
                              !.lists = st.d.lists,
                              !.fired = st.fired,
                              !.emits = @ + 1,
                              !.last = [NoBusOp EXCEPT !.op = "emit",
                                           !.event = event,
                                           !.invoked = copy]]
    /\ UNCHANGED notBus

NextBus ==
    \/ \E debug \in BOOLEAN : EventEmmiter(debug)
    \/ \E event \in Events, fn \in Listeners : on(event, fn)
    \/ \E event \in Events, fn \in Listeners : off(event, fn)
    \/ \E event \in Events, fn \in Listeners : once(event, fn)
    \/ \E event \in Events : emit(event)

SpecBus == Init /\ [][NextBus]_vars

(* ---------------------- EventEmmiter: claims -------------------------- *)

(* C18: a listener for which off(event, l) was called while it was          *)
(* registered with on(event, l), and which was not registered again, is     *)
(* no longer among the event's listeners and is not invoked by an emit of   *)
(* the event; the emit invokes the event's other listeners in their         *)
(* registration order.                                                      *)
C18_OffRemoves ==
    /\ \A p \in bus.offed : Count(bus.lists[p[1]], Plain(p[2])) = 0
    /\ bus.last.op = "emit" =>
          /\ \A i \in 1..Len(bus.last.invoked) :
                <<bus.last.event, bus.last.invoked[i].fn>> \notin bus.offed
                    \/ bus.last.invoked[i].once # 0
          /\ bus.last.invoked =
                SelectSeq(bus.lists[bus.last.event],
                          LAMBDA l : l.once # 0
                                     \/ <<bus.last.event, l.fn>> \notin
                                            bus.offed)

(* C19: the listener given to a call of once is invoked at most once,       *)
(* however many emits follow.                                               *)
C19_AtMostOnce == \A k \in 1..MaxOnce : bus.fired[k] <= 1

(* ========== LazyModel (advanced_prop/advanced_properties.py) ========== *)

\* what the loader may return: None or a value
LoaderReturns == {<<>>} \cup {<<v>> : v \in Results}

\* the variables a LazyModel leaves alone
notLazy == <<cacheVars, rt, en, bus, ov, hm, cc, ac>>

\* LazyModel(loader): lines 50-53
LazyModel ==
    /\ lm.pc = "none"
    /\ lm' = [LmIdle EXCEPT !.pc = "made", !.last = "init"]
    /\ UNCHANGED notLazy

\* model.data while _data_cache is None: lines 57-61, the loader returning v
\* and time.time() returning t
data_loads(v, t) ==
    /\ lm.pc = "made"
    /\ lm.reads < MaxReads
    /\ lm.data_cache = <<>>
    /\ t >= lm.now
    /\ lm' = [lm EXCEPT !.data_cache = v, !.loaded_at = <<t>>, !.now = t,
                        !.reads = @ + 1, !.loads = @ + 1, !.ret = v,
                        !.last = "data"]
    /\ UNCHANGED notLazy

\* model.data while _data_cache is not None: lines 57, 61
data_cached ==
    /\ lm.pc = "made"
    /\ lm.reads < MaxReads
    /\ lm.data_cache # <<>>
    /\ lm' = [lm EXCEPT !.reads = @ + 1, !.ret = lm.data_cache,
                        !.last = "data"]
    /\ UNCHANGED notLazy

\* model.loaded_at: lines 63-65
loaded_at ==
    /\ lm.pc = "made"
    /\ lm' = [lm EXCEPT !.ret = lm.loaded_at, !.last = "loaded_at"]
    /\ UNCHANGED notLazy

\* model.invalidate(): lines 67-69
invalidate ==
    /\ lm.pc = "made"
    /\ lm' = [lm EXCEPT !.data_cache = <<>>, !.loaded_at = <<>>,
                        !.reads = 0, !.loads = 0, !.ret = <<>>,
                        !.last = "invalidate"]
    /\ UNCHANGED notLazy

NextLazy ==
    \/ LazyModel
    \/ \E v \in LoaderReturns, t \in 0..MaxTime : data_loads(v, t)
    \/ data_cached
    \/ loaded_at
    \/ invalidate

SpecLazy == Init /\ [][NextLazy]_vars

(* ------------------------ LazyModel: claims --------------------------- *)

(* C20: since construction or the last invalidate the loader was called at  *)
(* most once, and exactly once if data was read, whatever it returned;      *)
(* right after invalidate loaded_at is None.                                *)
C20_LoadsOnce ==
    /\ lm.loads <= 1
    /\ lm.reads >= 1 => lm.loads = 1
    /\ lm.last = "invalidate" => lm.loaded_at = <<>>

(* ======= ObservableValue (advanced_prop/advanced_properties.py) ======= *)

\* the callbacks of the demo
Callbacks == {"logger", "alert_if_big"}

\* a comparison that never finds the values equal
SameValue_Never(old_value, new_value) == FALSE

\* Line 89: old_value == new_value
SameValue(old_value, new_value) == old_value = new_value

\* Lines 92-93: every callback of _observers is called with (old, new), in
\* the order of the list, the object holding value while it runs
Notify(observers, old_value, new_value, value) ==
    [i \in 1..Len(observers) |->
        [fn |-> observers[i], old |-> old_value, new |-> new_value,
         seen |-> value]]

\* the variables an ObservableValue leaves alone
notObs == <<cacheVars, rt, en, bus, lm, hm, cc, ac>>

\* ObservableValue(initial): lines 75-77
ObservableValue(initial) ==
    /\ ov.pc = "none"
    /\ ov' = [OvIdle EXCEPT !.pc = "made", !.value = initial,
                            !.last = [NoObsOp EXCEPT !.op = "init"]]
    /\ UNCHANGED notObs

\* subscribe(callback): lines 79-80
subscribe(callback) ==
    /\ ov.pc = "made"
    /\ Len(ov.observers) < MaxObservers
    /\ ov' = [ov EXCEPT !.observers = Append(@, callback),
                        !.last = [NoObsOp EXCEPT !.op = "subscribe"]]
    /\ UNCHANGED notObs

\* obs.value = new_value: lines 86-93
value_setter(new_value) ==
    /\ ov.pc = "made"
    /\ LET old_value == ov.value
       IN  IF SameValue(old_value, new_value)
           THEN ov' = [ov EXCEPT !.last = [NoObsOp EXCEPT !.op = "set",
                                              !.new = new_value]]
           ELSE ov' = [ov EXCEPT !.value = new_value,
                                 !.last = [op |-> "set", new |-> new_value,
                                           calls |-> Notify(ov.observers,
                                               old_value, new_value,
                                               new_value)]]
    /\ UNCHANGED notObs

NextObs ==
    \/ \E initial \in 0..MaxValue : ObservableValue(initial)
    \/ \E callback \in Callbacks : subscribe(callback)
    \/ \E new_value \in 0..MaxValue : value_setter(new_value)

SpecObs == Init /\ [][NextObs]_vars

(* --------------------- ObservableValue: claims ------------------------ *)

\* the step is an assignment of v to value
Assigns(v) == ov'.last.op = "set" /\ ov'.last.new = v /\ ov.pc = "made"

(* C21: an assignment of the current value calls no observer and changes    *)
(* neither the value nor the observers; an assignment of another value      *)
(* sets the value and calls the observers, once for every subscription and  *)
(* in subscription order, with (old, new), the value being already set.     *)
C21_Assignment ==
    [][\A v \in 0..MaxValue :
          Assigns(v) =>
              /\ ov'.observers = ov.observers
              /\ IF v = ov.value
                 THEN /\ ov'.value = ov.value
                      /\ ov'.last.calls = <<>>
                 ELSE /\ ov'.value = v
                      /\ Len(ov'.last.calls) = Len(ov.observers)
                      /\ \A i \in 1..Len(ov.observers) :
                            ov'.last.calls[i] =
                                [fn |-> ov.observers[i], old |-> ov.value,
                                 new |-> v, seen |-> v]]_vars

\* two different observers were called, in the order they subscribed
C21_Witness ==
    /\ ov.last.op = "set"
    /\ Len(ov.last.calls) >= 2
    /\ ov.last.calls[1].fn # ov.last.calls[2].fn
    /\ ov.last.calls[1].old # ov.value

(* ============== HistoryMeta objects (DZIEN_4/timetravel.py) =========== *)

\* the changes replayed with the last one left out: changes[:step]
Replayed_Exclusive(changes, step) == SubSeq(changes, 1, step)

\* Line 53: changes[: step + 1]
Replayed(changes, step) == SubSeq(changes, 1, step + 1)

RECURSIVE Replay(_, _)
\* Lines 53-54: the attributes after setting key = new for every change, in
\* order, on the attributes d
Replay(changes, d) ==
    IF changes = <<>> THEN d
    ELSE Replay(Tail(changes),
                [d EXCEPT ![Head(changes).key] = Head(changes).new])

\* the variables the object leaves alone
notHist == <<cacheVars, rt, en, bus, lm, ov, cc, ac>>

\* an object of the class is created; its __init__ sets nothing by itself
HistoryObject ==
    /\ hm.pc = "none"
    /\ hm' = [HmIdle EXCEPT !.pc = "made", !.last = [NoHmOp EXCEPT !.op = "new"]]
    /\ UNCHANGED notHist

\* obj.key = value at time ts: lines 17-31
setattr(key, value, ts) ==
    /\ hm.pc = "made"
    /\ Len(hm.history) < MaxHistory
    /\ ts >= hm.now
    /\ hm' = [hm EXCEPT !.has_history = TRUE,
                        !.now = ts,
                        !.history = Append(@, [ts |-> ts, key |-> key,
                                               old |-> hm.dict[key],
                                               new |-> value]),
                        !.dict[key] = value,
                        !.last = [NoHmOp EXCEPT !.op = "setattr"]]
    /\ UNCHANGED notHist

(* obj.rewind(step): lines 37-55. Without _history the method returns; a    *)
(* step outside the history raises IndexError; otherwise every attribute    *)
(* is deleted and the changes up to step are replayed and recorded again.   *)
rewind(step) ==
    /\ hm.pc = "made"
    /\ IF ~hm.has_history
       THEN hm' = [hm EXCEPT !.last = [op |-> "rewind", step |-> step,
                                       exc |-> ""]]
       ELSE IF step < 0 \/ step >= Len(hm.history)
       THEN hm' = [hm EXCEPT !.last = [op |-> "rewind", step |-> step,
                                       exc |-> "IndexError"]]
       ELSE LET changes == hm.history
                cleared == [k \in HmKeys |-> 0]
            IN  hm' = [hm EXCEPT
                          !.dict = Replay(Replayed(changes, step), cleared),
                          !.history = Replayed(changes, step),
                          !.last = [op |-> "rewind", step |-> step,
                                    exc |-> ""]]
    /\ UNCHANGED notHist

NextHist ==
    \/ HistoryObject
    \/ \E key \in HmKeys, value \in Results, ts \in 0..MaxTime :
          setattr(key, value, ts)
    \/ \E step \in -1..MaxHistory : rewind(step)

SpecHist == Init /\ [][NextHist]_vars

(* ----------------------- HistoryMeta: claims -------------------------- *)

\* the step is a call of rewind(step)
Rewinds(step) ==
    hm.pc = "made" /\ hm'.last.op = "rewind" /\ hm'.last.step = step

\* the value the changes h leave in attribute k: the new value of the last
\* change of k, and no attribute (0) when h has no change of k
LastWritten(h, k) ==
    LET idx == {i \in 1..Len(h) : h[i].key = k}
    IN  IF idx = {} THEN 0
        ELSE h[CHOOSE i \in idx : \A j \in idx : j <= i].new

\* rewind(step) with a step of the history: the object holds what changes
\* 0..step leave and the history is those step + 1 entries
RewindInRange(step) ==
    (Rewinds(step) /\ 0 <= step /\ step < Len(hm.history)) =>
        /\ hm'.last.exc = ""
        /\ hm'.history = SubSeq(hm.history, 1, step + 1)
        /\ \A k \in HmKeys :
              hm'.dict[k] = LastWritten(SubSeq(hm.history, 1, step + 1), k)

\* rewind(step) with a step outside the history raises IndexError
RewindRaises(step) ==
    (Rewinds(step) /\ ~(0 <= step /\ step < Len(hm.history))) =>
        hm'.last.exc = "IndexError"

\* rewind(step) with a step outside the history changes nothing
RewindOutsideKeeps(step) ==
    (Rewinds(step) /\ ~(0 <= step /\ step < Len(hm.history))) =>
        /\ hm'.dict = hm.dict
        /\ hm'.history = hm.history
        /\ hm'.has_history = hm.has_history

(* C22 as stated: with n recorded changes, rewind(step) with 0 <= step < n  *)
(* leaves the replay of changes 0..step and the history cut to them, and    *)
(* any other step raises IndexError and changes nothing.                    *)
C22_Original ==
    [][\A step \in -1..MaxHistory :
          RewindInRange(step) /\ RewindRaises(step)
              /\ RewindOutsideKeeps(step)]_vars

(* C22 amended: as above, except that on an object on which no attribute    *)
(* was ever set rewind returns without raising (and changes nothing).       *)
C22_Rewind ==
    [][\A step \in -1..MaxHistory :
          /\ RewindInRange(step)
          /\ RewindOutsideKeeps(step)
          /\ hm.has_history => RewindRaises(step)
          /\ (Rewinds(step) /\ ~hm.has_history) => hm'.last.exc = ""]_vars

\* a rewind that removed an attribute set after the step and cut the history
C22_Witness ==
    /\ hm.last.op = "rewind"
    /\ hm.last.exc = ""
    /\ hm.has_history
    /\ Len(hm.history) = hm.last.step + 1
    /\ \E k \in HmKeys : hm.dict[k] = 0
    /\ \E k \in HmKeys : hm.dict[k] # 0
    /\ hm.now > hm.history[Len(hm.history)].ts

(* ============ ttl_cache: the sweep and the store (Spec) =============== *)

\* the outcomes of a call of the wrapper: all of them begin with the sweep
SweepOps == {"hit", "miss", "raise", "typeerror"}

\* the age of entry e at the time of the last call exceeds ttl
Stale(e) == last.now - e.t > ttl

(* C23: the sweep of a call leaves no expired entry at the head of the      *)
(* cache, so an expired entry that is still stored after the sweep lies     *)
(* behind a non-expired one; and such states exist (C23_Witness).           *)
C23_StaleBehindFresh ==
    last.op \in SweepOps =>
        \A i \in 1..Len(last.swept) :
            Stale(last.swept[i]) => (i > 1 /\ ~Stale(last.swept[1]))

(* a call has completed and the cache stores an entry older than ttl        *)
(* behind a younger entry that is not                                       *)
C23_Witness ==
    /\ ttl > 0 /\ maxsize > 0
    /\ last.op \in SweepOps
    /\ \E i, j \in 1..Len(cache) :
          /\ j < i
          /\ Stale(cache[i])
          /\ ~Stale(cache[j])
          /\ cache[j].t > cache[i].t

(* C24: the sweep of a call removes a leading run of the cache, all of it   *)
(* older than ttl, and stops at the first entry that is not: what is left   *)
(* is the rest of the cache, in the same order and unchanged.               *)
C24_SweepLeadingRun ==
    [][last'.op \in SweepOps =>
          LET n == Len(cache) - Len(last'.swept)
          IN  /\ n >= 0
              /\ last'.swept = SubSeq(cache, n + 1, Len(cache))
              /\ \A i \in 1..n : last'.now - cache[i].t > ttl
              /\ n < Len(cache) => last'.now - cache[n + 1].t <= ttl]_vars

\* a sweep that removed an entry and stopped at one it kept
C24_Witness ==
    /\ last.op \in SweepOps
    /\ last.swept # <<>>
    /\ Len(last.swept) < last.before

(* C25: for maxsize >= 1, after a miss the key is the last entry of the     *)
(* cache, with the result and the time read at the start of the call; at    *)
(* most one entry, another one, was evicted; and a call with the same key   *)
(* at the same time is a hit that returns the result.                       *)
C25_MissStores ==
    [][(last.op = "miss" /\ maxsize >= 1) =>
          /\ cache # <<>>
          /\ cache[Len(cache)] =
                [key |-> last.key, t |-> last.now, value |-> last.ret]
          /\ last.now = clock
          /\ Len(last.evicted) <= 1
          /\ \A i \in 1..Len(last.evicted) : last.evicted[i].key # last.key
          /\ InCache(Sweep(cache, clock, ttl), last.key)
          /\ (/\ last'.op \in CallOps
              /\ last'.key = last.key
              /\ last'.now = last.now)
             => (last'.op = "hit" /\ last'.ret = last.ret
                 /\ ~last'.invoked)]_vars

\* a hit at the very time the entry was stored, in a full cache
C25_Witness ==
    /\ maxsize >= 1
    /\ last.op = "hit"
    /\ last.t = last.now
    /\ Len(cache) = maxsize

(* The runs of the wrapper without a hit: the actions of Spec but           *)
(* wrapper_hit.                                                             *)
NextNoHit ==
    \/ \E t \in 0..MaxTtl, m \in 0..MaxMaxsize, ty \in BOOLEAN :
          ttl_cache(t, m, ty)
    \/ \E call \in Calls : wrapper_unhashable(call)
    \/ \E call \in Calls, result \in Results : wrapper_miss(call, result)
    \/ \E call \in Calls : wrapper_raise(call)
    \/ cache_clear
    \/ cache_info

SpecNoHit == Init /\ [][NextNoHit]_vars

(* C28: in a run without a hit the insertion times do not decrease from     *)
(* the head of the cache to its end, and after a call no stored entry is    *)
(* older than ttl at the time of that call.                                 *)
C28_Monotone ==
    /\ \A i, j \in 1..Len(cache) : i < j => cache[i].t <= cache[j].t
    /\ last.op \in SweepOps => \A i \in 1..Len(cache) : ~Stale(cache[i])

\* two entries stored at different times survive a call that swept
C28_Witness ==
    /\ last.op \in SweepOps
    /\ Len(cache) = 2
    /\ cache[1].t < cache[2].t
    /\ last.now > cache[1].t

(* ========= ttl_cache around a coroutine function (SpecAsync) ========== *)

\* the key of the call f(n)
IntKey(n) == make_key(<<PyInt(n)>>, <<>>, FALSE)

\* the variables the wrapper around a coroutine function leaves alone
notAsync == <<cacheVars, rt, en, bus, lm, ov, hm, cc>>

\* ttl_cache(ttl=t, maxsize=m)(func) with func a coroutine function: the
\* decorator does not look at func, lines 331-335
async_decorate(t, m) ==
    /\ ac.pc = "undecorated"
    /\ ac' = [AcIdle EXCEPT !.pc = "ready", !.ttl = t, !.maxsize = m,
                            !.last = [NoAcOp EXCEPT !.op = "decorate"]]
    /\ UNCHANGED notAsync

(* wrapper(n) at time now, the key found after the sweep: the coroutine     *)
(* object stored in the entry is returned (lines 337-356).                  *)
async_hit(n, now) ==
    /\ ac.pc = "ready"
    /\ now >= ac.clock
    /\ LET key == IntKey(n)
           swept == Sweep(ac.cache, now, ac.ttl)
       IN  /\ InCache(swept, key)
           /\ ac' = [ac EXCEPT !.clock = now,
                               !.cache = MoveToEnd(swept, key),
                               !.held = Entry(swept, key).value,
                               !.last = [NoAcOp EXCEPT !.op = "hit"]]
    /\ UNCHANGED notAsync

(* wrapper(n) at time now, the key not found: func(n) makes a new coroutine *)
(* object without running it, and that object is stored and returned        *)
(* (lines 337-350, 358-366).                                                *)
async_miss(n, now) ==
    /\ ac.pc = "ready"
    /\ now >= ac.clock
    /\ Len(ac.coros) < MaxCoros
    /\ LET key == IntKey(n)
           swept == Sweep(ac.cache, now, ac.ttl)
           coro == Len(ac.coros) + 1
       IN  /\ ~InCache(swept, key)
           /\ ac' = [ac EXCEPT !.clock = now,
                               !.coros = Append(@, "pending"),
                               !.cache = EvictOver(
                                   SetItem(swept, key, now, coro),
                                   ac.maxsize),
                               !.held = coro,
                               !.last = [NoAcOp EXCEPT !.op = "miss"]]
    /\ UNCHANGED notAsync

(* the caller awaits the object the last call returned: a pending coroutine *)
(* runs to completion, one that was awaited before raises RuntimeError      *)
(* (cannot reuse already awaited coroutine).                                *)
await_result ==
    /\ ac.pc = "ready"
    /\ ac.held # 0
    /\ IF ac.coros[ac.held] = "pending"
       THEN ac' = [ac EXCEPT !.coros[ac.held] = "done", !.held = 0,
                             !.last = [NoAcOp EXCEPT !.op = "await"]]
       ELSE ac' = [ac EXCEPT !.held = 0,
                             !.last = [op |-> "await",
                                       exc |-> "RuntimeError"]]
    /\ UNCHANGED notAsync

NextAsync ==
    \/ \E m \in 1..MaxMaxsize : async_decorate(MaxTtl, m)
    \/ \E n \in 1..NumArgs, now \in 0..MaxTime : async_hit(n, now)
    \/ \E n \in 1..NumArgs, now \in 0..MaxTime : async_miss(n, now)
    \/ await_result

SpecAsync == Init /\ [][NextAsync]_vars

(* C26: around a coroutine function the cache never stores a computation    *)
(* that has not been awaited to completion, and awaiting what a call        *)
(* returned never fails.                                                    *)
C26_StoresAwaited ==
    /\ \A i \in 1..Len(ac.cache) : ac.coros[ac.cache[i].value] = "done"
    /\ ac.last.op = "await" => ac.last.exc = ""

(* ======== ttl_cache called from two threads (SpecThreads) ============= *)

RECURSIVE PopAll(_, _)
\* Lines 349-350: for k in to_delete: cache.pop(k, None)
PopAll(c, to_delete) ==
    IF to_delete = <<>> THEN c
    ELSE PopAll(Pop(c, Head(to_delete)), Tail(to_delete))

\* Lines 342-348: the keys of the leading entries that are expired
ToDelete(c, now, ttl_) ==
    LET left == Sweep(c, now, ttl_)
    IN  [i \in 1..(Len(c) - Len(left)) |-> c[i].key]

\* the capacity test off by one
OverCapacity_OffByOne(c, maxsize_) == Len(c) > maxsize_ + 1

\* Line 363: len(cache) > maxsize
OverCapacity(c, maxsize_) == Len(c) > maxsize_

\* the other thread
Other(i) == CHOOSE j \in Threads : j # i

\* the variables the threads leave alone
notThreads == <<cacheVars, rt, en, bus, lm, ov, hm, ac>>

\* ttl_cache(ttl=t, maxsize=m)(func), the wrapper being shared by the threads
threads_decorate(t, m) ==
    /\ cc.pc = "undecorated"
    /\ cc' = [CcIdle EXCEPT !.pc = "ready", !.ttl = t, !.maxsize = m]
    /\ UNCHANGED notThreads

(* thread i calls wrapper(n): it reads the clock, builds the key and scans  *)
(* the cache for the leading expired entries (lines 337-348)                *)
th_scan(i, n, now) ==
    /\ cc.pc = "ready"
    /\ cc.th[i].pc = "idle"
    /\ cc.th[i].calls < MaxThreadCalls
    /\ now >= cc.clock
    /\ cc' = [cc EXCEPT
                 !.clock = now,
                 !.raced = 0,
                 !.th[i] = [ThIdle EXCEPT
                               !.pc = "delete", !.n = n, !.now = now,
                               !.calls = cc.th[i].calls + 1,
                               !.to_delete = ToDelete(cc.cache, now, cc.ttl)]]
    /\ UNCHANGED notThreads

\* lines 349-350
th_delete(i) ==
    /\ cc.th[i].pc = "delete"
    /\ cc' = [cc EXCEPT !.cache = PopAll(@, cc.th[i].to_delete),
                        !.th[i].pc = "lookup"]
    /\ UNCHANGED notThreads

(* line 352, and for an absent key line 359: func is invoked and returns    *)
(* result                                                                   *)
th_lookup(i, result) ==
    /\ cc.th[i].pc = "lookup"
    /\ LET key == IntKey(cc.th[i].n)
           o == cc.th[Other(i)]
       IN  IF InCache(cc.cache, key)
           THEN cc' = [cc EXCEPT !.th[i].pc = "hit_pop"]
           ELSE cc' = [cc EXCEPT
                          !.th[i].pc = "store",
                          !.th[i].invoked = TRUE,
                          !.th[i].result = result,
                          !.raced = IF o.pc = "store" /\ o.n = cc.th[i].n
                                    THEN o.n ELSE @]
    /\ UNCHANGED notThreads

\* line 354: cache.pop(key), a KeyError when the entry is gone meanwhile
th_hit_pop(i) ==
    /\ cc.th[i].pc = "hit_pop"
    /\ LET key == IntKey(cc.th[i].n)
       IN  IF InCache(cc.cache, key)
           THEN cc' = [cc EXCEPT
                          !.cache = Pop(@, key),
                          !.th[i].t_inserted = Entry(cc.cache, key).t,
                          !.th[i].value = Entry(cc.cache, key).value,
                          !.th[i].pc = "hit_set"]
           ELSE cc' = [cc EXCEPT !.th[i].pc = "idle",
                                 !.th[i].outcome = "KeyError"]
    /\ UNCHANGED notThreads

\* lines 355-356: cache[key] = (t_inserted, value); return value
th_hit_set(i) ==
    /\ cc.th[i].pc = "hit_set"
    /\ cc' = [cc EXCEPT
                 !.cache = SetItem(@, IntKey(cc.th[i].n),
                                   cc.th[i].t_inserted, cc.th[i].value),
                 !.th[i].pc = "idle",
                 !.th[i].outcome = "hit"]
    /\ UNCHANGED notThreads

\* line 360: cache[key] = (now, result)
th_store(i) ==
    /\ cc.th[i].pc = "store"
    /\ cc' = [cc EXCEPT
                 !.cache = SetItem(@, IntKey(cc.th[i].n), cc.th[i].now,
                                   cc.th[i].result),
                 !.written[cc.th[i].n] = cc.th[i].result,
                 !.th[i].pc = "check"]
    /\ UNCHANGED notThreads

\* line 363: if len(cache) > maxsize; otherwise return result (line 366)
th_check(i) ==
    /\ cc.th[i].pc = "check"
    /\ IF OverCapacity(cc.cache, cc.maxsize)
       THEN cc' = [cc EXCEPT !.th[i].pc = "evict"]
       ELSE cc' = [cc EXCEPT !.th[i].pc = "idle", !.th[i].outcome = "miss"]
    /\ UNCHANGED notThreads

\* line 364: cache.popitem(last=False), a KeyError on an empty cache
th_evict(i) ==
    /\ cc.th[i].pc = "evict"
    /\ IF cc.cache = <<>>
       THEN cc' = [cc EXCEPT !.th[i].pc = "idle",
                             !.th[i].outcome = "KeyError"]
       ELSE cc' = [cc EXCEPT !.cache = Tail(@),
                             !.th[i].pc = "idle",
                             !.th[i].outcome = "miss"]
    /\ UNCHANGED notThreads

NextThreads ==
    \/ \E m \in 1..MaxMaxsize : threads_decorate(MaxTtl, m)
    \/ \E i \in Threads, n \in 1..MaxThreadArg, now \in 0..MaxTime :
          th_scan(i, n, now)
    \/ \E i \in Threads : th_delete(i)
    \/ \E i \in Threads, result \in Results : th_lookup(i, result)
    \/ \E i \in Threads : th_hit_pop(i)
    \/ \E i \in Threads : th_hit_set(i)
    \/ \E i \in Threads : th_store(i)
    \/ \E i \in Threads : th_check(i)
    \/ \E i \in Threads : th_evict(i)

SpecThreads == Init /\ [][NextThreads]_vars

(* ------------------------- threads: claims ---------------------------- *)

\* both threads made a call f(n) that found no entry before either stored,
\* and both calls have returned
RaceOver ==
    /\ cc.raced # 0
    /\ \A i \in Threads : cc.th[i].pc = "idle" /\ cc.th[i].outcome = "miss"

\* the entries of the cache for f(n)
EntriesOf(n) == {j \in 1..Len(cc.cache) : cc.cache[j].key = IntKey(n)}

(* C27 as stated: after such a race func was invoked by both calls, the     *)
(* cache holds one entry for the key, with the value stored last, and at    *)
(* most maxsize entries.                                                    *)
C27_Original ==
    RaceOver =>
        /\ \A i \in Threads : cc.th[i].invoked
        /\ Cardinality(EntriesOf(cc.raced)) = 1
        /\ \A j \in EntriesOf(cc.raced) :
              cc.cache[j].value = cc.written[cc.raced]
        /\ Len(cc.cache) <= cc.maxsize

(* C27 amended: after such a race func was invoked by both calls, the cache *)
(* holds at most one entry for the key, with the value stored last if it    *)
(* holds one, and at most maxsize entries.                                  *)
C27_Race ==
    RaceOver =>
        /\ \A i \in Threads : cc.th[i].invoked
        /\ Cardinality(EntriesOf(cc.raced)) <= 1
        /\ \A j \in EntriesOf(cc.raced) :
              cc.cache[j].value = cc.written[cc.raced]
        /\ Len(cc.cache) <= cc.maxsize

\* a race the two calls of which returned different results, one entry left
C27_Witness ==
    /\ RaceOver
    /\ cc.th[1].result # cc.th[2].result
    /\ Cardinality(EntriesOf(cc.raced)) = 1
    /\ Len(cc.cache) = cc.maxsize

====
